---- MODULE Spec2Model ----
(***************************************************************************)
(* Micro-Downloader: the download orchestration of YouTubeDownloaderGUI    *)
(* (src/src/main.py).  The Tk main thread runs the handlers                *)
(* _start_download / _stop_download and the widget edits; each accepted    *)
(* start spawns a daemon thread running _download_video.  The two sides    *)
(* share the object's fields (downloading, stop_requested, the Tk          *)
(* variables and the status label) without any lock, so every access of a  *)
(* shared field is a step of its own.                                      *)
(*                                                                         *)
(* Text is a sequence of characters (or of longer literal tokens); Python  *)
(* None is the one-token sequence None, which no text can equal.           *)
(***************************************************************************)
EXTENDS Integers, Sequences, FiniteSets, TLC

\* ---------------------------------------------------------------- bounds
MaxThreads == 2      \* worker threads alive at once
MaxUnits   == 3      \* entries of a collection the backend lists
NumPick    == 1      \* labels of the quality dropdown the user picks from
MaxListed  == 2      \* entries of a collection whose fields the backend varies
MaxBytes   == 2      \* byte counts the backend reports in a progress event

\* ------------------------------------------------------------------ text
None == <<"<None>">>

\* what the user types into the url entry: nothing, blanks, a url with blanks
\* around it, another url
CoreUrls == {<<>>, <<" ">>, <<" ", "a", " ">>}

\* the url pasted where the kind and quality are what the user changes
OneUrl == {<<" ", "a", " ">>}

IsSpace(c) == c = " "

RECURSIVE LStrip(_)
LStrip(s) == IF s # <<>> /\ IsSpace(Head(s)) THEN LStrip(Tail(s)) ELSE s

RECURSIVE RStrip(_)
RStrip(s) ==
    IF s # <<>> /\ IsSpace(s[Len(s)]) THEN RStrip(SubSeq(s, 1, Len(s) - 1)) ELSE s

\* str.strip()
Strip(s) == RStrip(LStrip(s))

\* str.split()[0]: the first whitespace-delimited token
RECURSIVE TakeToken(_)
TakeToken(s) ==
    IF s = <<>> \/ IsSpace(Head(s)) THEN <<>> ELSE <<Head(s)>> \o TakeToken(Tail(s))

FirstToken(s) == TakeToken(LStrip(s))

StartsWith(s, p) == Len(s) >= Len(p) /\ SubSeq(s, 1, Len(p)) = p

\* str.replace(old, ''): every non-overlapping occurrence, left to right
RECURSIVE Remove(_, _)
Remove(s, old) ==
    IF s = <<>> THEN <<>>
    ELSE IF StartsWith(s, old) THEN Remove(SubSeq(s, Len(old) + 1, Len(s)), old)
    ELSE <<Head(s)>> \o Remove(Tail(s), old)

\* Python truthiness of an optional text: None and '' are false
Truthy(v) == v # None /\ v # <<>>

\* a or b
Or(a, b) == IF Truthy(a) THEN a ELSE b

\* f"{v}"
FStr(v) == IF v = None THEN <<"N","o","n","e">> ELSE v

\* a float that is a quotient of integers, kept exact: num / den
Rat(num, den) == [num |-> num, den |-> den]

\* a <= b, for quotients with positive denominators
Leq(a, b) == a.num * b.den <= b.num * a.den

\* ------------------------------------------------------ quality labels
VideoQualities ==
    << <<"2","1","6","0","p"," ","(","4","K",")">>,
       <<"1","4","4","0","p"," ","(","2","K",")">>,
       <<"1","0","8","0","p"," ","(","F","u","l","l"," ","H","D",")">>,
       <<"7","2","0","p"," ","(","H","D",")">>,
       <<"4","8","0","p">>,
       <<"3","6","0","p">>,
       <<"2","4","0","p">>,
       <<"1","4","4","p">> >>

AudioQualities ==
    << <<"3","2","0","k","b","p","s"," ","(","H","i","g","h",")">>,
       <<"2","5","6","k","b","p","s"," ","(","G","o","o","d",")">>,
       <<"1","9","2","k","b","p","s"," ","(","M","e","d","i","u","m",")">>,
       <<"1","2","8","k","b","p","s"," ","(","L","o","w",")">> >>

Qualities(format) == IF format = "video" THEN VideoQualities ELSE AudioQualities

DefaultQuality(format) ==
    IF format = "video" THEN VideoQualities[3] ELSE AudioQualities[1]

\* what the user picks in the dropdown: the first NumPick labels of its values
Pickable(format) ==
    {Qualities(format)[k] : k \in 1..(IF NumPick < Len(Qualities(format))
                                      THEN NumPick ELSE Len(Qualities(format)))}

DefaultPath == <<"~/Downloads/mdl">>

\* ---------------------------------------------------- _get_format_string
\* the video branch, given the text read from quality_var
VideoFormat(quality) ==
    LET resolution == Remove(FirstToken(quality), <<"p">>)
    IN  <<"bestvideo[height<=">> \o resolution \o <<"]+bestaudio/best[height<=">>
            \o resolution \o <<"]/bestvideo+bestaudio/best">>

\* the audio branch
AudioFormat(quality) ==
    LET bitrate == Remove(FirstToken(quality), <<"k","b","p","s">>)
    IN  <<"bestaudio[abr<=">> \o bitrate \o <<"]/bestaudio/best">>

\* which branch built a format string
FormatKind(fmt) ==
    IF fmt = None THEN "unset"
    ELSE IF Head(fmt) = "bestvideo[height<=" THEN "video" ELSE "audio"

VideoPostprocessor == [key |-> "FFmpegVideoConvertor", preferedformat |-> "mp4"]

AudioPostprocessor(quality) ==
    [key |-> "FFmpegExtractAudio", preferredcodec |-> "mp3",
     preferredquality |-> FirstToken(quality)]

\* os.path.join(dir, '%(title)s.%(ext)s')
OutTmpl(dir) == dir \o <<"/", "%(title)s.%(ext)s">>

\* ------------------------------------------------------------ resolution
\* A dictionary key that is missing; dict.get(key, default)
Absent == <<"<absent>">>

Get(v, default) == IF v = Absent THEN default ELSE v

Unknown == <<"U","n","k","n","o","w","n">>

WatchPrefix == <<"https://youtube.com/watch?v=">>

\* EntryUnit with the slip of asking for 'webpage_url' first
EntryUnitWebFirst(entry) ==
    [title |-> Get(entry.title, Unknown),
     url   |-> Or(Or(Get(entry.webpage_url, None), Get(entry.url, None)),
                  WatchPrefix \o FStr(Get(entry.id, None))),
     id    |-> Get(entry.id, None)]

\* the dictionary appended for one truthy entry of a collection
EntryUnit(entry) ==
    [title |-> Get(entry.title, Unknown),
     url   |-> Or(Or(Get(entry.url, None), Get(entry.webpage_url, None)),
                  WatchPrefix \o FStr(Get(entry.id, None))),
     id    |-> Get(entry.id, None)]

\* CollectEntries with the slip of the try/except inside the loop: the entry
\* that raises ends the loop and the entries collected so far are kept
RECURSIVE CollectEntriesKeeps(_)
CollectEntriesKeeps(entries) ==
    IF entries = <<>> THEN [raised |-> FALSE, units |-> <<>>]
    ELSE LET e == Head(entries)
             rest == CollectEntriesKeeps(Tail(entries))
         IN  IF e.shape = "falsy" THEN rest
             ELSE IF e.shape = "broken" THEN [raised |-> FALSE, units |-> <<>>]
             ELSE [raised |-> FALSE, units |-> <<EntryUnit(e)>> \o rest.units]

\* CollectEntries with the slip of insert(0, ...) for append
RECURSIVE CollectEntriesReversed(_)
CollectEntriesReversed(entries) ==
    IF entries = <<>> THEN [raised |-> FALSE, units |-> <<>>]
    ELSE LET e == Head(entries)
             rest == CollectEntriesReversed(Tail(entries))
         IN  IF e.shape = "falsy" THEN rest
             ELSE IF e.shape = "broken" THEN [raised |-> TRUE, units |-> <<>>]
             ELSE [raised |-> rest.raised,
                   units  |-> IF rest.raised THEN <<>> ELSE rest.units \o <<EntryUnit(e)>>]

\* the loop over the entries: entries that are falsy are skipped; an entry
\* at which list(info['entries']) or entry.get raises ends the try block
RECURSIVE CollectEntries(_)
CollectEntries(entries) ==
    IF entries = <<>> THEN [raised |-> FALSE, units |-> <<>>]
    ELSE LET e == Head(entries)
             rest == CollectEntries(Tail(entries))
         IN  IF e.shape = "falsy" THEN rest
             ELSE IF e.shape = "broken" THEN [raised |-> TRUE, units |-> <<>>]
             ELSE [raised |-> rest.raised,
                   units  |-> IF rest.raised THEN <<>> ELSE <<EntryUnit(e)>> \o rest.units]

FallbackEntries(url) == <<[title |-> Unknown, url |-> url, id |-> None]>>

\* Resolve with the slip of taking the url of a single item from the answer
ResolveRewritten(url, info) ==
    IF info.shape = "raise"
    THEN [playlist_entries |-> FallbackEntries(url), playlist_title |-> None]
    ELSE IF info.shape = "none"
    THEN [playlist_entries |-> <<>>, playlist_title |-> None]
    ELSE IF info.shape = "playlist"
    THEN LET got == CollectEntries(info.entries)
         IN  [playlist_entries |-> IF got.raised THEN FallbackEntries(url) ELSE got.units,
              playlist_title   |-> Get(info.title, <<"P","l","a","y","l","i","s","t">>)]
    ELSE [playlist_entries |-> <<[title |-> Get(info.title, Unknown),
                                  url |-> Get(info.webpage_url, None),
                                  id |-> Get(info.id, None)]>>,
          playlist_title   |-> None]

\* playlist_entries and playlist_title after the try/except around extract_info
Resolve(url, info) ==
    IF info.shape = "raise"
    THEN [playlist_entries |-> FallbackEntries(url), playlist_title |-> None]
    ELSE IF info.shape = "none"
    THEN [playlist_entries |-> <<>>, playlist_title |-> None]
    ELSE IF info.shape = "playlist"
    THEN LET got == CollectEntries(info.entries)
         IN  [playlist_entries |-> IF got.raised THEN FallbackEntries(url) ELSE got.units,
              playlist_title   |-> Get(info.title, <<"P","l","a","y","l","i","s","t">>)]
    ELSE [playlist_entries |-> <<[title |-> Get(info.title, Unknown), url |-> url,
                                  id |-> Get(info.id, None)]>>,
          playlist_title   |-> None]

\* what the backend's listing call answers
GoodEntry == [shape |-> "dict", title |-> <<"t">>, url |-> <<"e">>,
              webpage_url |-> Absent, id |-> <<"i">>]

FalsyEntry == [shape |-> "falsy", title |-> Absent, url |-> Absent,
               webpage_url |-> Absent, id |-> Absent]

BrokenEntry == [shape |-> "broken", title |-> Absent, url |-> Absent,
                webpage_url |-> Absent, id |-> Absent]

\* an entry that is a dictionary with these values under 'url', 'webpage_url', 'id'
Entry(url, webpage_url, id) ==
    [shape |-> "dict", title |-> <<"t">>, url |-> url, webpage_url |-> webpage_url,
     id |-> id]

\* an empty dictionary is falsy; a dictionary with an id only
BareEntry == [shape |-> "dict", title |-> Absent, url |-> Absent,
              webpage_url |-> Absent, id |-> <<"j">>]

\* the entries of the collections of several entries
ListedEntries == {GoodEntry, FalsyEntry, BrokenEntry, BareEntry}

\* the entries that vary in what they hold under 'url', 'webpage_url', 'id':
\* a value, None, the empty text, or no such key
FieldEntries ==
    {Entry(<<"e">>, <<"w">>, <<"i">>), Entry(None, <<"w">>, <<"i">>),
     Entry(<<>>, <<"w">>, Absent), Entry(None, None, Absent)}

\* the answer of extract_info: its 'webpage_url' is the url as the backend
\* rewrote it
Info(shape, title, entries) ==
    [shape |-> shape, title |-> title, id |-> <<"i">>, webpage_url |-> <<"w">>,
     entries |-> entries]

\* no answer yet
NoInfo == Info("unset", Absent, <<>>)

SingleInfos == {Info("single", <<"t">>, <<>>)}

\* the answers that differ in the number of entries only
Infos ==
    {Info("raise", Absent, <<>>), Info("none", Absent, <<>>)} \cup SingleInfos
    \cup {Info("playlist", <<"P">>, [k \in 1..n |-> GoodEntry]) : n \in 0..MaxUnits}

\* the answers whose entries vary in their fields
ListedInfos ==
    {Info("raise", Absent, <<>>)} \cup SingleInfos
    \cup {Info("playlist", Absent, es) :
            es \in UNION {[1..n -> ListedEntries] : n \in 0..MaxListed}}
    \cup {Info("playlist", Absent, <<e>>) : e \in FieldEntries}

\* --------------------------------------------------- the progress hook
\* the dictionary the backend hands to the hook
Event(status, total_bytes, total_bytes_estimate, downloaded_bytes) ==
    [status |-> status, total_bytes |-> total_bytes,
     total_bytes_estimate |-> total_bytes_estimate,
     downloaded_bytes |-> downloaded_bytes]

\* a byte count is a number, None, or a key that is missing
NoneBytes == -1

AbsentBytes == -2

GetBytes(v, default) == IF v = AbsentBytes THEN default ELSE v

TruthyBytes(v) == v # NoneBytes /\ v # 0

\* a or b, on byte counts
OrBytes(a, b) == IF TruthyBytes(a) THEN a ELSE b

\* line 936
HookTotal(d) ==
    OrBytes(OrBytes(GetBytes(d.total_bytes, NoneBytes),
                    GetBytes(d.total_bytes_estimate, NoneBytes)), 0)

\* line 937
HookDownloaded(d) == GetBytes(d.downloaded_bytes, 0)

\* line 938 divides None by a number: TypeError, swallowed at lines 950-951
HookRaises(d) == TruthyBytes(HookTotal(d)) /\ HookDownloaded(d) = NoneBytes

\* line 938: the percentage, as the exact quotient num / den
HookProgress(d) ==
    IF TruthyBytes(HookTotal(d))
    THEN Rat(HookDownloaded(d) * 100, HookTotal(d))
    ELSE Rat(0, 1)

\* the events of a download of unknown size
HookEvents ==
    {Event("downloading", AbsentBytes, AbsentBytes, 1),
     Event("finished", AbsentBytes, AbsentBytes, AbsentBytes),
     Event("error", AbsentBytes, AbsentBytes, AbsentBytes)}

Bytes == {AbsentBytes, NoneBytes} \cup 0..MaxBytes

\* the 'downloading' events with every combination of the three byte counts
ProgressEvents ==
    {Event("downloading", total_bytes, total_bytes_estimate, downloaded_bytes) :
        total_bytes \in Bytes, total_bytes_estimate \in Bytes,
        downloaded_bytes \in Bytes \cup {MaxBytes + 1}}

\* ----------------------------------------------------------------- state
VARIABLES
    downloading,     \* self.downloading
    stop_requested,  \* self.stop_requested
    url_entry,       \* text of the url entry widget
    format_type,     \* Tk variable behind the video/audio radio buttons
    quality_var,     \* Tk variable behind the quality dropdown
    save_path,       \* Tk variable behind the save location (left as constructed)
    ffmpeg_ok,       \* result of check_dependencies at construction
    status,          \* what _update_status last wrote to the status bar
    progress_var,    \* Tk variable behind the progress bar, a percentage
    mainpc,          \* where the Tk main thread is: "loop" or a line of a handler
    handler,         \* the handler the main thread entered from the event loop
    threads,         \* the worker threads: locals and position of _download_video
    stop_issued,     \* history: line 1021 ran since the last accepted start
    stop_point,      \* history: where the worker was when line 1021 ran
    request          \* history: the inputs as they were when start was accepted

vars == <<downloading, stop_requested, url_entry, format_type, quality_var, save_path,
          ffmpeg_ok, status, progress_var, mainpc, handler, threads, stop_issued,
          stop_point, request>>

gui == <<url_entry, format_type, quality_var, save_path>>

Tids == 1..MaxThreads

Status(kind, n, m) == [kind |-> kind, n |-> n, m |-> m]

\* history: the last 'downloading' event that the hook of the download under
\* way reported, and the percentage it reported; none once ydl.download is left
NoShown ==
    [d |-> Event("none", AbsentBytes, AbsentBytes, AbsentBytes), progress |-> Rat(0, 1)]

NoOpts == [format |-> None, outtmpl |-> None, postprocessors |-> <<>>]

\* a slot with no thread in it; also the locals of a thread before it runs
NoThread ==
    [pc |-> "none", url |-> None, playlist_entries |-> <<>>, playlist_title |-> None,
     info |-> NoInfo, ydl_opts |-> NoOpts, i |-> 0, completed_count |-> 0, total_count |-> 0,
     save_folder |-> None, fetched |-> <<>>, outcomes |-> <<>>, final |-> "none",
     opened |-> None, shown |-> NoShown]

NoPoint == [k |-> -1, c |-> -1]

NoRequest == [url |-> None, dir |-> None, kind |-> "unset", quality |-> None]

Init ==
    /\ downloading = FALSE
    /\ stop_requested = FALSE
    /\ url_entry = <<>>
    /\ format_type = "video"
    /\ quality_var = DefaultQuality("video")
    /\ save_path = DefaultPath
    /\ ffmpeg_ok \in BOOLEAN
    /\ status = Status("Ready", 0, 0)
    /\ progress_var = Rat(0, 1)
    /\ mainpc = "loop"
    /\ handler = "none"
    /\ threads = [t \in Tids |-> NoThread]
    /\ stop_issued = FALSE
    /\ stop_point = NoPoint
    /\ request = NoRequest

Set(t, fields) == [threads EXCEPT ![t] = fields]

FreeSlots == {t \in Tids : threads[t].pc = "none"}

\* threading.Thread(target=self._download_video).start()
Spawn == 
    LET t == CHOOSE x \in FreeSlots : \A y \in FreeSlots : x <= y
    IN  Set(t, [NoThread EXCEPT !.pc = "L836"])

\* the threads that have not yet reached the last line of _reset_download_state
Running == {t \in Tids : threads[t].pc \notin {"none", "L1030"}}

\* the lines from which the fetch of the next entry is still to be invoked
BeforeFetch(th) ==
    \/ th.pc \in {"L836", "L864", "L895", "L823", "L826", "L896", "L909", "L918"}
    \/ th.pc = "L924" /\ th.i < th.total_count

\* the entries fetched and succeeded so far, when the worker is between fetches
PointNow ==
    IF \E t \in Running : BeforeFetch(threads[t])
    THEN LET t == CHOOSE x \in Running : BeforeFetch(threads[x])
         IN  [k |-> Len(threads[t].fetched), c |-> threads[t].completed_count]
    ELSE NoPoint

\* ------------------------------------------------------- the main thread
\* the user types in (or pastes into) the url entry
EditUrl(u) ==
    /\ mainpc = "loop"
    /\ url_entry' = u
    /\ UNCHANGED <<downloading, stop_requested, format_type, quality_var, save_path,
                   ffmpeg_ok, status, mainpc, handler, threads, stop_issued,
                   stop_point, request>>
    /\ UNCHANGED progress_var

\* StartDownload with the slip of not checking the url (lines 1007-1009 missing)
StartDownloadUnchecked ==
    /\ mainpc = "loop"
    /\ IF ~downloading
       THEN /\ FreeSlots # {}
            /\ downloading' = TRUE
            /\ stop_requested' = FALSE
            /\ threads' = Spawn
            /\ stop_issued' = FALSE
            /\ stop_point' = NoPoint
            /\ request' = [url |-> Strip(url_entry), dir |-> save_path,
                           kind |-> format_type, quality |-> quality_var]
            /\ UNCHANGED <<mainpc, handler>>
       ELSE /\ mainpc' = "L1020"
            /\ handler' = "_start_download"
            /\ UNCHANGED <<downloading, stop_requested, threads, stop_issued, stop_point,
                           request>>
    /\ UNCHANGED <<gui, ffmpeg_ok, status>>
    /\ UNCHANGED progress_var

\* StartDownload with the slip of leaving stop_requested as it is (line 1012
\* missing)
StartDownloadKeepsFlag ==
    /\ mainpc = "loop"
    /\ IF ~downloading
       THEN IF Strip(url_entry) = <<>>
            THEN /\ mainpc' = "L1008"
                 /\ handler' = "_start_download"
                 /\ UNCHANGED <<downloading, stop_requested, threads, stop_issued,
                                stop_point, request>>
            ELSE /\ FreeSlots # {}
                 /\ downloading' = TRUE
                 /\ threads' = Spawn
                 /\ stop_issued' = FALSE
                 /\ stop_point' = NoPoint
                 /\ request' = [url |-> Strip(url_entry), dir |-> save_path,
                                kind |-> format_type, quality |-> quality_var]
                 /\ UNCHANGED <<stop_requested, mainpc, handler>>
       ELSE /\ mainpc' = "L1020"
            /\ handler' = "_start_download"
            /\ UNCHANGED <<downloading, stop_requested, threads, stop_issued,
                           stop_point, request>>
    /\ UNCHANGED <<gui, ffmpeg_ok, status>>
    /\ UNCHANGED progress_var

\* _start_download, lines 1005-1014 (Download button, <Return>); with a run
\* active it goes on to _stop_download at line 1016
StartDownload ==
    /\ mainpc = "loop"
    /\ IF ~downloading
       THEN IF Strip(url_entry) = <<>>
            THEN /\ mainpc' = "L1008"
                 /\ handler' = "_start_download"
                 /\ UNCHANGED <<downloading, stop_requested, threads, stop_issued,
                                stop_point, request>>
            ELSE /\ FreeSlots # {}
                 /\ downloading' = TRUE
                 /\ stop_requested' = FALSE
                 /\ threads' = Spawn
                 /\ stop_issued' = FALSE
                 /\ stop_point' = NoPoint
                 /\ request' = [url |-> Strip(url_entry), dir |-> save_path,
                                kind |-> format_type, quality |-> quality_var]
                 /\ UNCHANGED <<mainpc, handler>>
       ELSE /\ mainpc' = "L1020"
            /\ handler' = "_start_download"
            /\ UNCHANGED <<downloading, stop_requested, threads, stop_issued,
                           stop_point, request>>
    /\ UNCHANGED <<gui, ffmpeg_ok, status>>
    /\ UNCHANGED progress_var

\* messagebox.showerror of line 1008 is dismissed and _start_download returns
DismissError ==
    /\ mainpc = "L1008"
    /\ mainpc' = "loop"
    /\ handler' = "none"
    /\ UNCHANGED <<downloading, stop_requested, gui, ffmpeg_ok, status, threads,
                   stop_issued, stop_point, request>>
    /\ UNCHANGED progress_var

\* <Escape> enters _stop_download
StopDownload ==
    /\ mainpc = "loop"
    /\ mainpc' = "L1020"
    /\ handler' = "_stop_download"
    /\ UNCHANGED <<downloading, stop_requested, gui, ffmpeg_ok, status, threads,
                   stop_issued, stop_point, request>>
    /\ UNCHANGED progress_var

\* _stop_download line 1020: if self.downloading
L1020 ==
    /\ mainpc = "L1020"
    /\ IF downloading
       THEN mainpc' = "L1021" /\ UNCHANGED handler
       ELSE mainpc' = "loop" /\ handler' = "none"
    /\ UNCHANGED <<downloading, stop_requested, gui, ffmpeg_ok, status, threads,
                   stop_issued, stop_point, request>>
    /\ UNCHANGED progress_var

\* L1021 with the slip of not writing the flag
L1021Skipped ==
    /\ mainpc = "L1021"
    /\ stop_issued' = TRUE
    /\ stop_point' = PointNow
    /\ mainpc' = "L1022"
    /\ UNCHANGED <<downloading, stop_requested, gui, ffmpeg_ok, status, handler, threads,
                   request>>
    /\ UNCHANGED progress_var

\* line 1021: self.stop_requested = True
L1021 ==
    /\ mainpc = "L1021"
    /\ stop_requested' = TRUE
    /\ stop_issued' = TRUE
    /\ stop_point' = PointNow
    /\ mainpc' = "L1022"
    /\ UNCHANGED <<downloading, gui, ffmpeg_ok, status, handler, threads, request>>
    /\ UNCHANGED progress_var

\* line 1022: self._update_status("Stopping...", 'downloading')
L1022 ==
    /\ mainpc = "L1022"
    /\ status' = Status("Stopping...", 0, 0)
    /\ mainpc' = "loop"
    /\ handler' = "none"
    /\ UNCHANGED <<downloading, stop_requested, gui, ffmpeg_ok, threads, stop_issued,
                   stop_point, request>>
    /\ UNCHANGED progress_var

\* a radio button is clicked: Tk writes format_type, then calls the command
SelectFormat(f) ==
    /\ mainpc = "loop"
    /\ format_type' = f
    /\ mainpc' = "L804"
    /\ handler' = "_update_quality_options"
    /\ UNCHANGED <<downloading, stop_requested, url_entry, quality_var, save_path,
                   ffmpeg_ok, status, threads, stop_issued, stop_point, request>>
    /\ UNCHANGED progress_var

\* _update_quality_options: the dropdown gets the labels of the kind and its default
L804 ==
    /\ mainpc = "L804"
    /\ quality_var' = DefaultQuality(format_type)
    /\ mainpc' = "loop"
    /\ handler' = "none"
    /\ UNCHANGED <<downloading, stop_requested, url_entry, format_type, save_path,
                   ffmpeg_ok, status, threads, stop_issued, stop_point, request>>
    /\ UNCHANGED progress_var

\* the user picks a label of the (read-only) dropdown
SelectQuality(q) ==
    /\ mainpc = "loop"
    /\ q \in Pickable(format_type)
    /\ quality_var' = q
    /\ UNCHANGED <<downloading, stop_requested, url_entry, format_type, save_path,
                   ffmpeg_ok, status, mainpc, handler, threads, stop_issued,
                   stop_point, request>>
    /\ UNCHANGED progress_var

\* ---------------------------------------------- _download_video (worker)
At(t, line) == threads[t].pc = line

\* lines 836-847: the url is read from the widget again
L836(t) ==
    /\ At(t, "L836")
    /\ LET url == Strip(url_entry)
       IN  IF url = <<>>
           THEN /\ threads' = Set(t, [threads[t] EXCEPT !.url = url, !.pc = "L1029"])
                /\ UNCHANGED status
           ELSE IF ~ffmpeg_ok
           THEN /\ threads' = Set(t, [threads[t] EXCEPT !.url = url, !.pc = "L843"])
                /\ UNCHANGED status
           ELSE /\ threads' = Set(t, [threads[t] EXCEPT !.url = url, !.pc = "L864"])
                /\ status' = Status("Fetching video info...", 0, 0)
    /\ UNCHANGED <<downloading, stop_requested, gui, ffmpeg_ok, mainpc, handler,
                   stop_issued, stop_point, request>>
    /\ UNCHANGED progress_var

\* L843 with the slip of returning without _reset_download_state
L843NoReset(t) ==
    /\ At(t, "L843")
    /\ threads' = Set(t, NoThread)
    /\ UNCHANGED <<downloading, stop_requested, gui, ffmpeg_ok, status, mainpc, handler,
                   stop_issued, stop_point, request>>
    /\ UNCHANGED progress_var

\* line 843: the dependency error box is dismissed
L843(t) ==
    /\ At(t, "L843")
    /\ threads' = Set(t, [threads[t] EXCEPT !.pc = "L1029"])
    /\ UNCHANGED <<downloading, stop_requested, gui, ffmpeg_ok, status, mainpc, handler,
                   stop_issued, stop_point, request>>
    /\ UNCHANGED progress_var

\* lines 859-891: the listing call answers (or raises) and the entries are built
L864(t, infos) ==
    /\ At(t, "L864")
    /\ \E info \in infos :
         LET r == Resolve(threads[t].url, info)
         IN  /\ threads' = Set(t, [threads[t] EXCEPT
                                     !.info = info,
                                     !.playlist_entries = r.playlist_entries,
                                     !.playlist_title = r.playlist_title,
                                     !.pc = "L895"])
             /\ IF Truthy(r.playlist_title) /\ Len(r.playlist_entries) > 1
                THEN status' = Status("Playlist", 0, Len(r.playlist_entries))
                ELSE UNCHANGED status
    /\ UNCHANGED <<downloading, stop_requested, gui, ffmpeg_ok, mainpc, handler,
                   stop_issued, stop_point, request>>
    /\ UNCHANGED progress_var

\* line 895 calling line 822: the branch of _get_format_string
L895(t) ==
    /\ At(t, "L895")
    /\ threads' = Set(t, [threads[t] EXCEPT
                            !.pc = IF format_type = "video" THEN "L823" ELSE "L826"])
    /\ UNCHANGED <<downloading, stop_requested, gui, ffmpeg_ok, status, mainpc, handler,
                   stop_issued, stop_point, request>>
    /\ UNCHANGED progress_var

\* lines 823-824
L823(t) ==
    /\ At(t, "L823")
    /\ threads' = Set(t, [threads[t] EXCEPT !.ydl_opts.format = VideoFormat(quality_var),
                                            !.pc = "L896"])
    /\ UNCHANGED <<downloading, stop_requested, gui, ffmpeg_ok, status, mainpc, handler,
                   stop_issued, stop_point, request>>
    /\ UNCHANGED progress_var

\* lines 826-827
L826(t) ==
    /\ At(t, "L826")
    /\ threads' = Set(t, [threads[t] EXCEPT !.ydl_opts.format = AudioFormat(quality_var),
                                            !.pc = "L896"])
    /\ UNCHANGED <<downloading, stop_requested, gui, ffmpeg_ok, status, mainpc, handler,
                   stop_issued, stop_point, request>>
    /\ UNCHANGED progress_var

\* line 896
L896(t) ==
    /\ At(t, "L896")
    /\ threads' = Set(t, [threads[t] EXCEPT !.ydl_opts.outtmpl = OutTmpl(save_path),
                                            !.pc = "L909"])
    /\ UNCHANGED <<downloading, stop_requested, gui, ffmpeg_ok, status, mainpc, handler,
                   stop_issued, stop_point, request>>
    /\ UNCHANGED progress_var

\* lines 921-922, once the options are complete
EnterLoop(th) ==
    [th EXCEPT !.completed_count = 0, !.total_count = Len(th.playlist_entries),
               !.i = 0, !.pc = "L924"]

\* lines 909-913: the branch on format_type, and the video post-processor
L909(t) ==
    /\ At(t, "L909")
    /\ threads' = Set(t, IF format_type = "video"
                         THEN EnterLoop([threads[t] EXCEPT !.ydl_opts.postprocessors =
                                            Append(@, VideoPostprocessor)])
                         ELSE [threads[t] EXCEPT !.pc = "L918"])
    /\ UNCHANGED <<downloading, stop_requested, gui, ffmpeg_ok, status, mainpc, handler,
                   stop_issued, stop_point, request>>
    /\ UNCHANGED progress_var

\* lines 915-919: the audio post-processor
L918(t) ==
    /\ At(t, "L918")
    /\ threads' = Set(t, EnterLoop([threads[t] EXCEPT !.ydl_opts.postprocessors =
                                       Append(@, AudioPostprocessor(quality_var))]))
    /\ UNCHANGED <<downloading, stop_requested, gui, ffmpeg_ok, status, mainpc, handler,
                   stop_issued, stop_point, request>>
    /\ UNCHANGED progress_var

\* L924 with the slip of appending the post-processor inside the loop
L924AddsPostprocessor(t) ==
    /\ At(t, "L924")
    /\ threads' = Set(t, IF threads[t].i >= threads[t].total_count \/ stop_requested
                         THEN [threads[t] EXCEPT !.pc = "L970"]
                         ELSE [threads[t] EXCEPT !.fetched = Append(@, threads[t].i),
                                                 !.ydl_opts.postprocessors =
                                                     IF threads[t].i > 0
                                                     THEN Append(@, VideoPostprocessor)
                                                     ELSE @,
                                                 !.pc = "L959"])
    /\ UNCHANGED <<downloading, stop_requested, gui, ffmpeg_ok, status, mainpc, handler,
                   stop_issued, stop_point, request>>
    /\ UNCHANGED progress_var

\* lines 924-959: the next entry, the stop check, and the call of ydl.download
L924(t) ==
    /\ At(t, "L924")
    /\ threads' = Set(t, IF threads[t].i >= threads[t].total_count \/ stop_requested
                         THEN [threads[t] EXCEPT !.pc = "L970"]
                         ELSE [threads[t] EXCEPT !.fetched = Append(@, threads[t].i),
                                                 !.pc = "L959"])
    /\ UNCHANGED <<downloading, stop_requested, gui, ffmpeg_ok, status, mainpc, handler,
                   stop_issued, stop_point, request>>
    /\ UNCHANGED progress_var

\* Hook with the slip of labelling its updates with the entries left
HookCountsDown(t, d) ==
    /\ At(t, "L959")
    /\ IF stop_requested
       THEN /\ threads' = Set(t, [threads[t] EXCEPT !.outcomes = Append(@, "stopped"),
                                                    !.shown = NoShown,
                                                    !.pc = "L970"])
            /\ UNCHANGED <<status, progress_var>>
       ELSE IF d.status = "downloading"
       THEN IF HookRaises(d)
            THEN UNCHANGED <<threads, status, progress_var>>
            ELSE /\ progress_var' = HookProgress(d)
                 /\ status' = Status("progress", threads[t].total_count - threads[t].i,
                                     threads[t].total_count)
                 /\ threads' = Set(t, [threads[t] EXCEPT
                                         !.shown = [d |-> d, progress |-> HookProgress(d)]])
       ELSE /\ UNCHANGED <<threads, progress_var>>
            /\ status' = IF d.status = "finished"
                         THEN Status("Processing...",
                                     threads[t].total_count - threads[t].i,
                                     threads[t].total_count)
                         ELSE status
    /\ UNCHANGED <<downloading, stop_requested, gui, ffmpeg_ok, mainpc, handler,
                   stop_issued, stop_point, request>>

\* lines 930-952: the backend calls the progress hook during the download; the
\* exception of line 932 leaves ydl.download and reaches lines 963-966
Hook(t, d) ==
    /\ At(t, "L959")
    /\ IF stop_requested
       THEN /\ threads' = Set(t, [threads[t] EXCEPT !.outcomes = Append(@, "stopped"),
                                                    !.shown = NoShown,
                                                    !.pc = "L970"])
            /\ UNCHANGED <<status, progress_var>>
       ELSE IF d.status = "downloading"
       THEN IF HookRaises(d)
            THEN UNCHANGED <<threads, status, progress_var>>
            ELSE /\ progress_var' = HookProgress(d)
                 /\ status' = Status("progress", threads[t].i + 1, threads[t].total_count)
                 /\ threads' = Set(t, [threads[t] EXCEPT
                                         !.shown = [d |-> d, progress |-> HookProgress(d)]])
       ELSE /\ UNCHANGED <<threads, progress_var>>
            /\ status' = IF d.status = "finished"
                         THEN Status("Processing...", threads[t].i + 1,
                                     threads[t].total_count)
                         ELSE status
    /\ UNCHANGED <<downloading, stop_requested, gui, ffmpeg_ok, mainpc, handler,
                   stop_issued, stop_point, request>>

\* FetchReturns with the slip of not counting the download
FetchReturnsUncounted(t) ==
    /\ At(t, "L959")
    /\ threads' = Set(t, [threads[t] EXCEPT !.outcomes = Append(@, "ok"),
                                            !.shown = NoShown,
                                            !.i = @ + 1,
                                            !.pc = "L924"])
    /\ UNCHANGED <<downloading, stop_requested, gui, ffmpeg_ok, status, mainpc, handler,
                   stop_issued, stop_point, request>>
    /\ UNCHANGED progress_var

\* lines 959-961: ydl.download returns
FetchReturns(t) ==
    /\ At(t, "L959")
    /\ threads' = Set(t, [threads[t] EXCEPT !.completed_count = @ + 1,
                                            !.outcomes = Append(@, "ok"),
                                            !.shown = NoShown,
                                            !.i = @ + 1,
                                            !.pc = "L924"])
    /\ UNCHANGED <<downloading, stop_requested, gui, ffmpeg_ok, status, mainpc, handler,
                   stop_issued, stop_point, request>>
    /\ UNCHANGED progress_var

\* FetchRaises with the slip of leaving the loop on every error
FetchRaisesBreaks(t) ==
    /\ At(t, "L959")
    /\ threads' = Set(t, [threads[t] EXCEPT !.outcomes = Append(@, "error"),
                                            !.shown = NoShown,
                                            !.pc = "L970"])
    /\ UNCHANGED <<downloading, stop_requested, gui, ffmpeg_ok, status, mainpc, handler,
                   stop_issued, stop_point, request>>
    /\ UNCHANGED progress_var

\* lines 963-967: ydl.download raises an error of the backend
FetchRaises(t) ==
    /\ At(t, "L959")
    /\ threads' = Set(t, [threads[t] EXCEPT !.outcomes = Append(@, "error"),
                                            !.shown = NoShown,
                                            !.i = @ + 1,
                                            !.pc = "L924"])
    /\ UNCHANGED <<downloading, stop_requested, gui, ffmpeg_ok, status, mainpc, handler,
                   stop_issued, stop_point, request>>
    /\ UNCHANGED progress_var

\* L970 with the slip of asking for at least one download before "Completed"
L970NonEmpty(t) ==
    /\ At(t, "L970")
    /\ LET th == [threads[t] EXCEPT !.save_folder = save_path]
       IN  IF stop_requested
           THEN /\ status' = Status("Download cancelled", 0, 0)
                /\ threads' = Set(t, [th EXCEPT !.final = "cancelled", !.pc = "L1029"])
                /\ UNCHANGED progress_var
           ELSE IF th.completed_count = th.total_count /\ th.total_count > 0
           THEN /\ progress_var' = Rat(100, 1)
                /\ status' = Status("Completed", th.completed_count, th.total_count)
                /\ threads' = Set(t, [th EXCEPT !.final = "completed", !.pc = "L977"])
           ELSE /\ status' = Status("some failed", th.completed_count, th.total_count)
                /\ threads' = Set(t, [th EXCEPT !.final = "some failed", !.pc = "L1029"])
                /\ UNCHANGED progress_var
    /\ UNCHANGED <<downloading, stop_requested, gui, ffmpeg_ok, mainpc, handler,
                   stop_issued, stop_point, request>>

\* lines 970-983: the final status
L970(t) ==
    /\ At(t, "L970")
    /\ LET th == [threads[t] EXCEPT !.save_folder = save_path]
       IN  IF stop_requested
           THEN /\ status' = Status("Download cancelled", 0, 0)
                /\ threads' = Set(t, [th EXCEPT !.final = "cancelled", !.pc = "L1029"])
                /\ UNCHANGED progress_var
           ELSE IF th.completed_count = th.total_count
           THEN /\ progress_var' = Rat(100, 1)
                /\ status' = Status("Completed", th.completed_count, th.total_count)
                /\ threads' = Set(t, [th EXCEPT !.final = "completed", !.pc = "L977"])
           ELSE /\ status' = Status("some failed", th.completed_count, th.total_count)
                /\ threads' = Set(t, [th EXCEPT !.final = "some failed", !.pc = "L1029"])
                /\ UNCHANGED progress_var
    /\ UNCHANGED <<downloading, stop_requested, gui, ffmpeg_ok, mainpc, handler,
                   stop_issued, stop_point, request>>

\* lines 976-981: the success box is answered
L977(t, result) ==
    /\ At(t, "L977")
    /\ threads' = Set(t, [threads[t] EXCEPT
                            !.opened = IF result THEN threads[t].save_folder ELSE @,
                            !.pc = "L1029"])
    /\ UNCHANGED <<downloading, stop_requested, gui, ffmpeg_ok, status, mainpc, handler,
                   stop_issued, stop_point, request>>
    /\ UNCHANGED progress_var

\* _reset_download_state lines 1026-1029: the progress bar back to 0 and
\* self.downloading = False; the locals of _download_video are dead from here on
L1029(t) ==
    /\ At(t, "L1029")
    /\ progress_var' = Rat(0, 1)
    /\ downloading' = FALSE
    /\ threads' = Set(t, [NoThread EXCEPT !.pc = "L1030"])
    /\ UNCHANGED <<stop_requested, gui, ffmpeg_ok, status, mainpc, handler, stop_issued,
                   stop_point, request>>

\* line 1030: self.stop_requested = False, and the thread ends
L1030(t) ==
    /\ At(t, "L1030")
    /\ stop_requested' = FALSE
    /\ threads' = Set(t, NoThread)
    /\ UNCHANGED <<downloading, gui, ffmpeg_ok, status, mainpc, handler, stop_issued,
                   stop_point, request>>
    /\ UNCHANGED progress_var

\* ------------------------------------------------------- specifications
User(urls) ==
    \/ \E u \in urls : EditUrl(u)
    \/ StartDownload
    \/ StopDownload

Main ==
    \/ DismissError
    \/ L1020
    \/ L1021
    \/ L1022

Worker(t, infos) ==
    \/ L836(t)
    \/ L843(t)
    \/ L864(t, infos)
    \/ L895(t)
    \/ L823(t)
    \/ L896(t)
    \/ L909(t)
    \/ L924(t)
    \/ \E d \in HookEvents : Hook(t, d)
    \/ FetchReturns(t)
    \/ FetchRaises(t)
    \/ L970(t)
    \/ \E result \in BOOLEAN : L977(t, result)
    \/ L1029(t)
    \/ L1030(t)

\* the branches of the worker for format_type = "audio"
WorkerAudio(t) ==
    \/ L826(t)
    \/ L918(t)

\* the user leaves kind and quality as they are: format_type stays "video"
Next ==
    \/ User(CoreUrls)
    \/ Main
    \/ \E t \in Tids : Worker(t, Infos)

Spec == Init /\ [][Next]_vars

UserOptions ==
    \/ \E f \in {"video", "audio"} : SelectFormat(f)
    \/ L804
    \/ \E q \in Pickable(format_type) : SelectQuality(q)

\* the user also changes kind and quality; the url is a single item
NextOptions ==
    \/ User(OneUrl)
    \/ Main
    \/ UserOptions
    \/ \E t \in Tids : Worker(t, SingleInfos)
    \/ \E t \in Tids : WorkerAudio(t)

SpecOptions == Init /\ [][NextOptions]_vars

\* the backend varies the entries it lists; the user starts and stops with
\* the Download button
NextResolve ==
    \/ \E u \in OneUrl : EditUrl(u)
    \/ StartDownload
    \/ Main
    \/ \E t \in Tids : Worker(t, ListedInfos)

SpecResolve == Init /\ [][NextResolve]_vars

\* the backend varies the byte counts of its progress events
NextProgress ==
    \/ \E u \in OneUrl : EditUrl(u)
    \/ StartDownload
    \/ Main
    \/ \E t \in Tids : Worker(t, SingleInfos)
    \/ \E t \in Tids : \E d \in ProgressEvents : Hook(t, d)

SpecProgress == Init /\ [][NextProgress]_vars

\* what the user types where termination is the question: nothing, or a url
LiveUrls == {<<>>, <<" ", "a", " ">>}

\* what the listing answers there: it raises, None, or a single item
LiveInfos == {Info("raise", Absent, <<>>), Info("none", Absent, <<>>)} \cup SingleInfos

\* the steps of a worker other than the calls of its hook: the thread runs,
\* the listing and download calls come back, the dialogs are answered
Returns(t, infos) ==
    \/ L836(t)
    \/ L843(t)
    \/ L864(t, infos)
    \/ L895(t)
    \/ L823(t)
    \/ L896(t)
    \/ L909(t)
    \/ L924(t)
    \/ FetchReturns(t)
    \/ FetchRaises(t)
    \/ L970(t)
    \/ \E result \in BOOLEAN : L977(t, result)
    \/ L1029(t)
    \/ L1030(t)

NextLive ==
    \/ User(LiveUrls)
    \/ Main
    \/ \E t \in Tids : Worker(t, LiveInfos)

\* every worker thread keeps running, every call of the backend returns or
\* raises, and every dialog of a worker is answered
SpecLive == Init /\ [][NextLive]_vars /\ \A t \in Tids : WF_vars(Returns(t, LiveInfos))

\* ---------------------------------------------------------------- claims
\* a worker that has written its final status (lines 971-983)
Reported(t) == threads[t].final # "none"

\* a worker with nothing but the reset left of its run (the dependency box of
\* line 843 only waits to be dismissed)
Ended(t) == threads[t].pc \in {"L843", "L1029"}

Oks(outcomes) == Cardinality({k \in 1..Len(outcomes) : outcomes[k] = "ok"})

UpTo(n) == [k \in 1..n |-> k - 1]

\* C1: in a run during which no stop is requested, every entry that resolution
\* produced is handed to the backend's download exactly once and in order,
\* whatever the earlier downloads returned.
C1_EveryUnitFetchedOnce ==
    \A t \in Tids :
        (Reported(t) /\ ~stop_issued) => threads[t].fetched = UpTo(threads[t].total_count)

\* a run without a stop whose first download failed and whose later ones were made
C1_Witness ==
    \E t \in Tids :
        /\ Reported(t) /\ ~stop_issued
        /\ threads[t].total_count = 3
        /\ threads[t].outcomes = <<"error", "ok", "error">>
        /\ threads[t].fetched = <<0, 1, 2>>

\* a step of the main thread inside _start_download's branch for an active run
StartWhileActiveStep ==
    /\ handler = "_start_download"
    /\ mainpc \in {"L1020", "L1021", "L1022"}
    /\ mainpc' # mainpc

C3_AllSucceededIsCompleted ==
    \A t \in Tids :
        (Reported(t) /\ threads[t].total_count > 0
            /\ threads[t].completed_count = threads[t].total_count)
        => threads[t].final = "completed"

\* C4 as claimed: a run during which no stop is requested ends with exactly
\* one final status, "completed" when every download succeeded and "some
\* failed" otherwise, and its count is the number of successful downloads.
C4_EveryRunReports ==
    \A t \in Tids :
        (Ended(t) /\ ~stop_issued) =>
            /\ threads[t].final \in {"completed", "some failed"}
            /\ threads[t].completed_count = Oks(threads[t].outcomes)
            /\ threads[t].final = "completed"
                    <=> threads[t].completed_count = threads[t].total_count

\* the worker returned at line 840 or 845, before resolution
ReturnedEarly(t) == threads[t].url = <<>> \/ ~ffmpeg_ok

\* C4 as the code has it: the same, for the runs whose worker gets past its
\* own url and ffmpeg checks; a worker that returns at line 840 or 845 writes
\* no final status.
C4_FinalStatus ==
    \A t \in Tids :
        (Ended(t) /\ ~stop_issued) =>
            IF ReturnedEarly(t)
            THEN threads[t].final = "none"
            ELSE /\ threads[t].final \in {"completed", "some failed"}
                 /\ threads[t].completed_count = Oks(threads[t].outcomes)
                 /\ threads[t].final = "completed"
                        <=> threads[t].completed_count = threads[t].total_count

\* the run of three entries of which the second fails
C4_Witness ==
    \E t \in Tids :
        /\ Ended(t) /\ ~stop_issued
        /\ threads[t].outcomes = <<"ok", "error", "ok">>
        /\ threads[t].completed_count = 2
        /\ threads[t].final = "some failed"

Last(seq) == seq[Len(seq)]

\* C5: a download ended by the progress hook's stop exception is followed by
\* no further download and the run's final status is "Download cancelled".
C5_StopInHookEndsCancelled ==
    \A t \in Tids :
        (threads[t].outcomes # <<>> /\ Last(threads[t].outcomes) = "stopped") =>
            /\ Len(threads[t].fetched) = Len(threads[t].outcomes)
            /\ Reported(t) => threads[t].final = "cancelled"

\* C6: after a stop requested between downloads, with k entries fetched and
\* entry k still to come, no further download is invoked, the count stays
\* what it was and the run ends with "Download cancelled".
C6_StopBetweenUnits ==
    \A t \in Running :
        (stop_point.k >= 0 /\ threads[t].total_count > stop_point.k) =>
            /\ Len(threads[t].fetched) = stop_point.k
            /\ threads[t].completed_count = stop_point.c
            /\ Reported(t) => threads[t].final = "cancelled"

\* C7: once a stop has been requested for the active run, the flag reads
\* true for as long as the run is active.
C7_FlagStaysSet == (downloading /\ stop_issued) => stop_requested

\* the options of a worker are complete from line 921 on
OptionsBuilt(t) == threads[t].ydl_opts.postprocessors # <<>>

\* C8: what the worker uses is what the inputs were when start was accepted:
\* the url, the format string, the post-processor and the output template.
C8_RequestImmutable ==
    \A t \in Tids :
        /\ threads[t].url # None => threads[t].url = request.url
        /\ OptionsBuilt(t) =>
              /\ FormatKind(threads[t].ydl_opts.format) = request.kind
              /\ threads[t].ydl_opts.format =
                     IF request.kind = "video" THEN VideoFormat(request.quality)
                                               ELSE AudioFormat(request.quality)
              /\ threads[t].ydl_opts.postprocessors =
                     IF request.kind = "video" THEN <<VideoPostprocessor>>
                                               ELSE <<AudioPostprocessor(request.quality)>>
              /\ threads[t].ydl_opts.outtmpl = OutTmpl(request.dir)
        /\ threads[t].save_folder # None => threads[t].save_folder = request.dir

\* C9: with no run active and a url that is empty after trimming, a start
\* command only shows the error box: nothing else changes, and
\* no step starts a run or a worker.
C9_EmptyUrlRejected ==
    [][(~downloading /\ Strip(url_entry) = <<>>) =>
            /\ ~downloading'
            /\ \A t \in Tids : threads[t].pc = "none" => threads'[t].pc = "none"
            /\ (mainpc = "loop" /\ mainpc' = "L1008") =>
                    UNCHANGED <<downloading, stop_requested, gui, ffmpeg_ok, status,
                                progress_var, threads, stop_issued, stop_point,
                                request>>]_vars

\* the error box of line 1008, for a url of blanks
C9_Witness ==
    /\ mainpc = "L1008" /\ handler = "_start_download"
    /\ url_entry = <<" ">>
    /\ ~downloading /\ Running = {}

\* C10: no worker reads an empty url.
C10_WorkerNeverSeesEmptyUrl == \A t \in Tids : threads[t].url # <<>>

\* the worker threads that have not returned from _download_video
Alive == {t \in Tids : threads[t].pc # "none"}

\* the worker threads inside ydl.download
Fetching == {t \in Tids : threads[t].pc = "L959"}

\* C11: at most one run is active at a time: there are never two worker
\* threads inside _download_video at once, and never two calls of
\* ydl.download in flight at once.
C11_OneRunAtATime == Cardinality(Alive) <= 1 /\ Cardinality(Fetching) <= 1

\* the listing call of the worker has answered (or raised)
Listed(t) == threads[t].info # NoInfo

\* the listing failed: extract_info raised, or reading the entries did
ListingFailed(info) ==
    \/ info.shape = "raise"
    \/ /\ info.shape = "playlist"
       /\ \E k \in 1..Len(info.entries) : info.entries[k].shape = "broken"

\* C12: when the listing call fails at any point, even after entries were
\* collected, the worker is left with the one entry titled "Unknown" whose url
\* is the url it asked for, and its loop downloads that entry like any other.
C12_FailedListingFallsBack ==
    \A t \in Tids :
        (Listed(t) /\ ListingFailed(threads[t].info)) =>
            /\ threads[t].playlist_entries =
                   <<[title |-> Unknown, url |-> threads[t].url, id |-> None]>>
            /\ \A k \in 1..Len(threads[t].fetched) : threads[t].fetched[k] = 0
            /\ Reported(t) => threads[t].total_count = 1
            /\ (Reported(t) /\ ~stop_issued) => threads[t].fetched = <<0>>

\* the listing failed at the second entry, and the fallback entry was downloaded
C12_Witness ==
    \E t \in Tids :
        /\ threads[t].info.shape = "playlist"
        /\ threads[t].info.entries = <<GoodEntry, BrokenEntry>>
        /\ threads[t].fetched = <<0>>
        /\ threads[t].outcomes = <<"ok">>
        /\ threads[t].final = "completed"

\* the worker was answered a collection and read all of its entries
Collection(t) ==
    /\ Listed(t)
    /\ threads[t].info.shape = "playlist"
    /\ ~ListingFailed(threads[t].info)

IsTruthyEntry(e) == e.shape # "falsy"

Units(entries) == [k \in 1..Len(entries) |-> EntryUnit(entries[k])]

\* C13 as claimed: for a collection, playlist_entries has one entry per entry
\* of the answer, in the order of the answer.
C13_OneUnitPerEntry ==
    \A t \in Tids :
        Collection(t) => threads[t].playlist_entries = Units(threads[t].info.entries)

\* C13 as the code has it: for a collection, playlist_entries has one entry
\* per entry of the answer that is not None (or empty), in the order of the
\* answer; the entries that are None are left out.
C13_OneUnitPerTruthyEntry ==
    \A t \in Tids :
        Collection(t) =>
            threads[t].playlist_entries =
                Units(SelectSeq(threads[t].info.entries, IsTruthyEntry))

\* a collection of two whose first entry is None: one entry is downloaded
C13_Witness ==
    \E t \in Tids :
        /\ Collection(t)
        /\ threads[t].info.entries = <<FalsyEntry, GoodEntry>>
        /\ threads[t].playlist_entries = <<EntryUnit(GoodEntry)>>
        /\ threads[t].pc = "L959"

\* C14: for a single item, playlist_entries is one entry whose url is the url
\* the worker asked for, whatever url the answer holds.
C14_SingleItemKeepsUrl ==
    \A t \in Tids :
        (Listed(t) /\ threads[t].info.shape = "single") =>
            /\ Len(threads[t].playlist_entries) = 1
            /\ threads[t].playlist_entries[1].url = threads[t].url
            /\ \A k \in 1..Len(threads[t].fetched) : threads[t].fetched[k] = 0

\* a single item whose answer holds another url, being downloaded
C14_Witness ==
    \E t \in Tids :
        /\ threads[t].info.shape = "single"
        /\ threads[t].info.webpage_url # threads[t].url
        /\ threads[t].pc = "L959"
        /\ threads[t].fetched = <<0>>

\* C15: a run whose listing yields no entry and during which no stop is
\* requested calls ydl.download for nothing and ends with "Completed 0/0",
\* the status of success, and not with "some failed".
C15_NothingToDoIsSuccess ==
    \A t \in Tids :
        /\ (Listed(t) /\ threads[t].playlist_entries = <<>>) => threads[t].fetched = <<>>
        /\ (Reported(t) /\ ~stop_issued /\ threads[t].playlist_entries = <<>>) =>
              /\ threads[t].final = "completed"
              /\ threads[t].total_count = 0
              /\ threads[t].completed_count = 0

\* the listing answered None; the success box of line 979 is up
C15_Witness ==
    \E t \in Tids :
        /\ threads[t].info.shape = "none"
        /\ ~stop_issued
        /\ threads[t].pc = "L977"
        /\ threads[t].final = "completed"
        /\ status = Status("Completed", 0, 0)

\* a byte count the event holds
Known(v) == v # AbsentBytes /\ v # NoneBytes

\* the total of an event: the exact total, or else the estimated total, when
\* known and not zero
KnownTotal(d) ==
    IF Known(d.total_bytes) /\ d.total_bytes # 0 THEN d.total_bytes
    ELSE IF Known(d.total_bytes_estimate) /\ d.total_bytes_estimate # 0
    THEN d.total_bytes_estimate
    ELSE 0

\* C16: the percentage reported for a 'downloading' event is 100 times
\* downloaded bytes over total bytes when the total is known and not zero and
\* 0 otherwise, and it lies between 0 and 100, whatever byte counts the event
\* holds.
C16_ProgressIsFraction ==
    \A t \in Tids :
        threads[t].shown # NoShown =>
            LET d == threads[t].shown.d
                downloaded == IF Known(d.downloaded_bytes) THEN d.downloaded_bytes ELSE 0
                progress == threads[t].shown.progress
            IN  /\ progress = IF KnownTotal(d) # 0
                              THEN Rat(downloaded * 100, KnownTotal(d))
                              ELSE Rat(0, 1)
                /\ Leq(Rat(0, 1), progress)
                /\ Leq(progress, Rat(100, 1))

\* C17: in a run of one entry, when a 'downloading' event holds at least the
\* downloaded bytes of the event reported before it, the percentage reported
\* for it is at least the percentage reported before.
C17_ProgressMonotone ==
    [][\A t \in Tids :
          (/\ threads[t].total_count = 1
           /\ threads[t].shown # NoShown
           /\ threads'[t].shown # NoShown
           /\ HookDownloaded(threads[t].shown.d) >= 0
           /\ HookDownloaded(threads'[t].shown.d) >= HookDownloaded(threads[t].shown.d))
          => Leq(threads[t].shown.progress, threads'[t].shown.progress)]_vars

IsDigit(c) == c \in {"0", "1", "2", "3", "4", "5", "6", "7", "8", "9"}

\* the digits a label starts with
RECURSIVE LeadingNumber(_)
LeadingNumber(s) ==
    IF s = <<>> \/ ~IsDigit(Head(s)) THEN <<>> ELSE <<Head(s)>> \o LeadingNumber(Tail(s))

\* the format string of a kind limited to a number
Constraint(kind, limit) ==
    IF kind = "video"
    THEN <<"bestvideo[height<=">> \o limit \o <<"]+bestaudio/best[height<=">>
             \o limit \o <<"]/bestvideo+bestaudio/best">>
    ELSE <<"bestaudio[abr<=">> \o limit \o <<"]/bestaudio/best">>

\* the format strings of the labels of a kind
ValidConstraints(kind) ==
    {Constraint(kind, LeadingNumber(Qualities(kind)[k])) :
        k \in 1..Len(Qualities(kind))}

\* _get_format_string on every label of the two dropdown lists
SelectorOnLabels ==
    /\ \A k \in 1..Len(VideoQualities) :
          VideoFormat(VideoQualities[k]) =
              Constraint("video", LeadingNumber(VideoQualities[k]))
    /\ \A k \in 1..Len(AudioQualities) :
          AudioFormat(AudioQualities[k]) =
              Constraint("audio", LeadingNumber(AudioQualities[k]))

\* C18: the format string a worker gets from _get_format_string is the one of
\* a label of its kind, limited to the number the label starts with: on the
\* labels of the kind the selector returns that string, and on any other
\* label it returns none.
C18_SelectorValidates ==
    /\ SelectorOnLabels
    /\ \A t \in Tids :
          threads[t].ydl_opts.format # None =>
              threads[t].ydl_opts.format
                  \in ValidConstraints(FormatKind(threads[t].ydl_opts.format))

\* the statuses the progress hook writes
HookKinds == {"progress", "Processing..."}

\* the worker calls ydl.download for its next entry
FetchInvoked(t) == threads[t].pc = "L924" /\ threads'[t].pc = "L959"

\* the hook of the worker's download under way writes a status
HookWrites(t) ==
    /\ threads[t].pc = "L959" /\ threads'[t].pc = "L959"
    /\ mainpc' = mainpc
    /\ status' # status

\* C19: within a run the entries are downloaded in strictly increasing index,
\* the download of an entry is not called before every earlier call has come
\* back, and the hook labels every update with the entry being downloaded, so
\* no update of an entry follows an update of a later entry.
C19_InOrder ==
    [][\A t \in Tids :
          /\ FetchInvoked(t) =>
                /\ threads'[t].fetched = Append(threads[t].fetched, threads[t].i)
                /\ Len(threads[t].outcomes) = Len(threads[t].fetched)
                /\ \A k \in 1..Len(threads[t].fetched) :
                        threads[t].fetched[k] < threads[t].i
          /\ HookWrites(t) =>
                /\ status'.kind \in HookKinds
                /\ status'.n = Last(threads[t].fetched) + 1
                /\ status.kind \in HookKinds => status.n <= status'.n]_vars

\* the second of three entries is being downloaded, the first having failed,
\* and the hook has labelled an update with it
C19_Witness ==
    \E t \in Tids :
        /\ threads[t].pc = "L959"
        /\ threads[t].fetched = <<0, 1>>
        /\ threads[t].outcomes = <<"error">>
        /\ threads[t].total_count = 3
        /\ status = Status("progress", 2, 3)

\* a value an entry holds under a key: not missing, not None, not empty
Present(v) == v # Absent /\ v # None /\ v # <<>>

\* C20: the url of the unit made from an entry of a collection is the entry's
\* 'url' when it holds one, otherwise its 'webpage_url' when it holds one,
\* otherwise the watch url built from its 'id'; the built url is used only
\* when the entry holds neither of the two urls.
C20_EntryUrlPreference ==
    \A t \in Tids :
        Collection(t) =>
            LET entries == SelectSeq(threads[t].info.entries, IsTruthyEntry)
            IN  /\ Len(threads[t].playlist_entries) = Len(entries)
                /\ \A k \in 1..Len(entries) :
                      LET e == entries[k]
                          u == threads[t].playlist_entries[k].url
                      IN  /\ Present(e.url) => u = e.url
                          /\ (~Present(e.url) /\ Present(e.webpage_url))
                                => u = e.webpage_url
                          /\ (~Present(e.url) /\ ~Present(e.webpage_url))
                                => u = WatchPrefix \o FStr(Get(e.id, None))
                          /\ StartsWith(u, WatchPrefix)
                                => (~Present(e.url) /\ ~Present(e.webpage_url))

\* an entry that holds both urls is downloaded from its 'url', and an entry
\* with an id only from the built url
C20_Witness ==
    \E t \in Tids :
        /\ Collection(t)
        /\ threads[t].info.entries = <<Entry(<<"e">>, <<"w">>, <<"i">>)>>
        /\ threads[t].playlist_entries[1].url = <<"e">>
        /\ threads[t].pc = "L959"

\* the lines of the worker before its options are built
BeforeOptions == {"L836", "L843", "L864"}

\* the lines of the worker from the loop on, up to the reset
LoopLines == {"L924", "L959", "L970", "L977", "L1029"}

\* C21: the format string and the post-processor are built once per run, after
\* the listing and before the first download, and every download of the run
\* is called with that same format string and post-processor.
C21_OptionsBuiltOnce ==
    [][\A t \in Tids :
          /\ threads[t].pc \in BeforeOptions => threads[t].ydl_opts = NoOpts
          /\ (threads[t].pc \in LoopLines /\ threads'[t].pc \in LoopLines)
                => threads'[t].ydl_opts = threads[t].ydl_opts
          /\ FetchInvoked(t) =>
                /\ threads[t].ydl_opts.format # None
                /\ threads[t].ydl_opts.outtmpl # None
                /\ Len(threads[t].ydl_opts.postprocessors) = 1
                /\ threads'[t].ydl_opts = threads[t].ydl_opts]_vars

\* the third download of a run is under way with the options built before the
\* first
C21_Witness ==
    \E t \in Tids :
        /\ threads[t].pc = "L959"
        /\ threads[t].fetched = <<0, 1, 2>>
        /\ threads[t].ydl_opts.format = VideoFormat(DefaultQuality("video"))
        /\ threads[t].ydl_opts.postprocessors = <<VideoPostprocessor>>

\* the worker built the audio post-processor (line 915)
AudioBuilt(t) ==
    /\ OptionsBuilt(t)
    /\ threads[t].ydl_opts.postprocessors[1].key = "FFmpegExtractAudio"

\* C22: the 'preferredquality' of the audio post-processor is the number the
\* quality label starts with, the same number as the limit of the audio
\* format string, for every label of the audio dropdown list.
C22_AudioBitrateIsNumber ==
    \A t \in Tids :
        AudioBuilt(t) =>
            \E k \in 1..Len(AudioQualities) :
                /\ threads[t].ydl_opts.postprocessors[1].preferredquality
                       = LeadingNumber(AudioQualities[k])
                /\ AudioFormat(AudioQualities[k]) =
                       Constraint("audio",
                           threads[t].ydl_opts.postprocessors[1].preferredquality)

\* C23: every accepted run ends and leaves the engine idle: whenever
\* downloading is true it is false again later, and every worker thread
\* returns, on every path of the worker.
C23_RunTerminates ==
    /\ downloading ~> ~downloading
    /\ \A t \in Tids : (threads[t].pc # "none") ~> (threads[t].pc = "none")

\* a run that found ffmpeg missing has set downloading back to false
C23_Witness ==
    /\ ~downloading
    /\ ~ffmpeg_ok
    /\ request.url # None
    /\ \E t \in Tids : threads[t].pc = "L1030"

\* the status a worker wrote at lines 971-983
FinalStatus(th) ==
    IF th.final = "cancelled" THEN Status("Download cancelled", 0, 0)
    ELSE IF th.final = "completed"
    THEN Status("Completed", th.completed_count, th.total_count)
    ELSE Status("some failed", th.completed_count, th.total_count)

\* C24: once a worker has written its final status, the status bar keeps it
\* until the run is over: no later status of the run, such as "Stopping...",
\* replaces it.
C24_FinalStatusStays ==
    \A t \in Tids : Reported(t) => status = FinalStatus(threads[t])

\* the main thread is at the check of _stop_download with no run active
StopWhileIdle == mainpc = "L1020" /\ ~downloading

\* a start command is accepted
RunAccepted == ~downloading /\ downloading'

\* C25: a stop command that finds no run active changes nothing (the flag,
\* the status, downloading and the workers stay as they are, and no run
\* becomes active under it); every accepted run begins with the flag false;
\* and a run during which no stop was requested is never cancelled.
C25_StopWhileIdleIsNoOp ==
    /\ [][/\ StopWhileIdle => ~downloading'
          /\ (StopWhileIdle /\ mainpc' # mainpc) =>
                /\ mainpc' = "loop"
                /\ UNCHANGED <<downloading, stop_requested, gui, ffmpeg_ok, status,
                               progress_var, threads, stop_issued, stop_point, request>>
          /\ RunAccepted => ~stop_requested']_vars
    /\ [](\A t \in Tids :
            ~stop_issued =>
                /\ threads[t].final # "cancelled"
                /\ \A k \in 1..Len(threads[t].outcomes) :
                        threads[t].outcomes[k] # "stopped")

\* <Escape> pressed between two runs: _stop_download is at its check, no run
\* is active and no worker is left
C25_Witness ==
    /\ StopWhileIdle
    /\ handler = "_stop_download"
    /\ request.url # None
    /\ Alive = {}

====
